---- MODULE Spec2Model ----
(***************************************************************************)
(* Model of the snowflake identifier generator of snowflake.go:            *)
(* NewSnowflake, Snowflake.NextID and DecomposeParts, with the wall clock, *)
(* the package-level epochStart and any number of goroutines calling       *)
(* NextID on shared generators.                                            *)
(*                                                                         *)
(* Widths are scaled so that every field value can be enumerated: the      *)
(* layout is timestamp(EpochBits) | node(MachineIDBits) | seq(SequenceBits)*)
(* exactly as in the source, and the unsigned 64-bit word is scaled to the *)
(* sum of the three widths, as 42 + 10 + 12 = 64 in the source.            *)
(***************************************************************************)
EXTENDS Integers, Sequences, FiniteSets, TLC

\* ---------------------------------------------------------------- widths
\* snowflake.go:22-24, scaled
EpochBits == 2
MachineIDBits == 2
SequenceBits == 2
\* snowflake.go:21 (the width of uint64, the sum of the three fields)
TotalBits == EpochBits + MachineIDBits + SequenceBits
\* snowflake.go:32, Sequence is a uint16
Uint16Bits == 16
\* snowflake.go:39, nanoseconds per tick, scaled
snowflakeTimeUnit == 2

\* ---------------------------------------------------------------- bounds
\* the wall clock reads 0..MaxClock (in nanoseconds, scaled)
MaxClock == 5
\* NextID calls made on one generator
MaxCalls == 5
\* goroutines calling NextID
NumThreads == 2
\* NextID calls made on two generators together
MaxCallsTwo == 4

Threads == 1 .. NumThreads
Gens == {"sf", "sf2"}
NoThread == 0
Nil == [nil |-> TRUE]

\* ------------------------------------------------------- integer helpers
\* Go's / and % truncate toward zero
GoDiv(a, b) == IF a >= 0 THEN a \div b ELSE -((-a) \div b)
GoMod(a, b) == a - b * GoDiv(a, b)

\* a & b for b >= 0; a is read in two's complement, so a may be negative
RECURSIVE BitAnd(_, _)
BitAnd(a, b) ==
    IF b = 0 THEN 0
    ELSE (a % 2) * (b % 2) + 2 * BitAnd(a \div 2, b \div 2)

\* a | b on unsigned words
RECURSIVE BitOr(_, _)
BitOr(a, b) ==
    IF a = 0 THEN b
    ELSE IF b = 0 THEN a
    ELSE (IF a % 2 = 1 \/ b % 2 = 1 THEN 1 ELSE 0) + 2 * BitOr(a \div 2, b \div 2)

\* conversions to the unsigned types
ToUint64(x) == x % (2 ^ TotalBits)
ToUint16(x) == x % (2 ^ Uint16Bits)
\* x << n and x >> n on uint64
Shl(x, n) == (x * (2 ^ n)) % (2 ^ TotalBits)
Shr(x, n) == x \div (2 ^ n)

\* ------------------------------------------------------------ time.Time
\* nanoseconds covered by the timestamp field
EpochSpan == (2 ^ EpochBits) * snowflakeTimeUnit
\* time.Time{}: January 1, year 1, earlier than every instant of the model
ZeroTime == -(2 * EpochSpan)
\* snowflake.go:41, the initial value of the package variable epochStart
DefaultEpoch == snowflakeTimeUnit + 1
\* epoch instants handed to NewSnowflake
StartInputs ==
    {ZeroTime, -EpochSpan, snowflakeTimeUnit + 1 - EpochSpan, 0, snowflakeTimeUnit}
\* machine identifiers handed to NewSnowflake
MachineInputs == {-1, 0, 1, (2 ^ MachineIDBits) + 1}
\* the inputs of the two-generator specification
StartInputsTwo == {ZeroTime, 0, snowflakeTimeUnit}
MachineInputsTwo == {0, 1, (2 ^ MachineIDBits) + 1}

After(t, u) == t > u
IsZero(t) == t = ZeroTime

VARIABLES
    clock,              \* time.Now().UnixNano(), the wall clock
    epochStart,         \* the package variable epochStart
    sf,                 \* the *Snowflake each variable holds, Nil or the struct
    mutex,              \* sf.mutex: the goroutine holding it, or NoThread
    pc,                 \* where each goroutine stands in NextID
    self,               \* the receiver of the goroutine's NextID call
    currentTimestamp,   \* the local of NextID
    log,                \* history: the results of NextID, in the order of return
    ctor,               \* history: the last NewSnowflake call assigned to each variable
    parts               \* the last DecomposeParts call: its argument and its results

vars == <<clock, epochStart, sf, mutex, pc, self, currentTimestamp, log, ctor, parts>>

\* --------------------------------------------------------- snowflake.go
maxNodeID == (2 ^ MachineIDBits) - 1

timeToSnowflakeUnit(t) == GoDiv(t, snowflakeTimeUnit)

elapsedTime(startTime) == timeToSnowflakeUnit(clock) - startTime

\* mutant: the machine identifier is stored unmasked
MaskMachineIDNone(machineID) == ToUint64(machineID)

\* sf.MachineID = uint64(machineID & maxNodeID)
MaskMachineID(machineID) == ToUint64(BitAnd(machineID, maxNodeID))

\* sf.StartTime as NewSnowflake sets it
NewStartTime(starttime) ==
    IF IsZero(starttime) THEN timeToSnowflakeUnit(epochStart)
    ELSE timeToSnowflakeUnit(starttime)

\* mutant: epochStart = starttime runs before the check of line 48
NewEpochStartUnchecked(starttime) ==
    IF IsZero(starttime) THEN epochStart ELSE starttime

\* epochStart as NewSnowflake leaves it
NewEpochStart(starttime) ==
    IF After(starttime, clock) THEN epochStart
    ELSE IF IsZero(starttime) THEN epochStart
    ELSE starttime

\* sf = NewSnowflake(starttime, machineID), assigned to the variable g
NewSnowflake(g, starttime, machineID) ==
    /\ sf[g] = Nil
    /\ sf' = [sf EXCEPT ![g] =
                IF After(starttime, clock) THEN Nil
                ELSE [StartTime |-> NewStartTime(starttime),
                      MachineID |-> MaskMachineID(machineID),
                      Sequence |-> 0,
                      lastTimestamp |-> 0]]
    /\ epochStart' = NewEpochStart(starttime)
    /\ ctor' = [ctor EXCEPT ![g] =
                [starttime |-> starttime, machineID |-> machineID]]
    /\ UNCHANGED <<clock, mutex, pc, self, currentTimestamp, log, parts>>

\* mutant: line 77 without the mask
NextSequenceUnmasked(seq) == ToUint16(seq + 1)

\* (sf.Sequence + 1) & uint16(1<<SequenceBits - 1)
NextSequence(seq) == BitAnd(ToUint16(seq + 1), ToUint16((2 ^ SequenceBits) - 1))

\* mutant: line 73 compares with != and follows the clock backwards
AdjustFollowClock(s, cur) ==
    IF s.lastTimestamp # cur
    THEN [s EXCEPT !.lastTimestamp = cur, !.Sequence = 0]
    ELSE IF NextSequence(s.Sequence) = 0
         THEN [s EXCEPT !.Sequence = 0, !.lastTimestamp = s.lastTimestamp + 1]
         ELSE [s EXCEPT !.Sequence = NextSequence(s.Sequence)]

\* mutant: line 79 is missing, the rollover keeps the tick
AdjustNoAdvance(s, cur) ==
    IF s.lastTimestamp < cur
    THEN [s EXCEPT !.lastTimestamp = cur, !.Sequence = 0]
    ELSE [s EXCEPT !.Sequence = NextSequence(s.Sequence)]

\* lines 73-79: the generator after the tick/sequence adjustment
Adjust(s, cur) ==
    IF s.lastTimestamp < cur
    THEN [s EXCEPT !.lastTimestamp = cur, !.Sequence = 0]
    ELSE IF NextSequence(s.Sequence) = 0
         THEN [s EXCEPT !.Sequence = 0, !.lastTimestamp = s.lastTimestamp + 1]
         ELSE [s EXCEPT !.Sequence = NextSequence(s.Sequence)]

\* line 78: the call goes on to sleep
Rollover(s, cur) == ~(s.lastTimestamp < cur) /\ NextSequence(s.Sequence) = 0

\* line 82
Standby(s, cur) ==
    (s.lastTimestamp - cur) * snowflakeTimeUnit - GoMod(clock, snowflakeTimeUnit)

\* mutant: line 98 ors the machine identifier in without the shift
PackOverlap(s) ==
    BitOr(BitOr(Shl(ToUint64(s.lastTimestamp), MachineIDBits + SequenceBits),
                s.MachineID),
          ToUint64(s.Sequence))

\* lines 97-99
Pack(s) ==
    BitOr(BitOr(Shl(ToUint64(s.lastTimestamp), MachineIDBits + SequenceBits),
                Shl(s.MachineID, SequenceBits)),
          ToUint64(s.Sequence))

\* mutant: line 121 read as id & (maskMachineID >> SequenceBits)
DecomposePartsPrecedence(id) ==
    LET maskMachineID == Shl((2 ^ MachineIDBits) - 1, SequenceBits)
        maskSequence == (2 ^ SequenceBits) - 1
    IN  <<Shr(id, MachineIDBits + SequenceBits),
          BitAnd(id, Shr(maskMachineID, SequenceBits)),
          BitAnd(id, maskSequence)>>

\* lines 116-125
DecomposeParts(id) ==
    LET maskMachineID == Shl((2 ^ MachineIDBits) - 1, SequenceBits)
        maskSequence == (2 ^ SequenceBits) - 1
    IN  <<Shr(id, MachineIDBits + SequenceBits),
          Shr(BitAnd(id, maskMachineID), SequenceBits),
          BitAnd(id, maskSequence)>>

\* mutant: line 91 compares with > and lets the tick 2^EpochBits through
ResultLate(s) ==
    IF s.Sequence > (2 ^ SequenceBits) - 1 THEN [id |-> 0, err |-> "panic"]
    ELSE IF s.lastTimestamp > 2 ^ EpochBits
         THEN [id |-> 0, err |-> "maximum timestamp has been reached"]
         ELSE [id |-> Pack(s), err |-> "nil"]

\* what NextID hands back from line 87 on
Result(s) ==
    IF s.Sequence > (2 ^ SequenceBits) - 1 THEN [id |-> 0, err |-> "panic"]
    ELSE IF s.lastTimestamp >= 2 ^ EpochBits
         THEN [id |-> 0, err |-> "maximum timestamp has been reached"]
         ELSE [id |-> Pack(s), err |-> "nil"]

\* NextID calls made so far on the generators of G, returned or not
CallsOn(G) ==
    LET RECURSIVE Returned(_)
        Returned(H) ==
            IF H = {} THEN 0
            ELSE LET g == CHOOSE x \in H : TRUE
                 IN  Len(log[g]) + Returned(H \ {g})
    IN  Returned(G) + Cardinality({t \in Threads : pc[t] # "idle" /\ self[t] \in G})

\* a goroutine calls sf.NextID() and blocks on sf.mutex.Lock()
Call(t, g) ==
    /\ pc[t] = "idle"
    /\ sf[g] # Nil
    /\ pc' = [pc EXCEPT ![t] = "Lock"]
    /\ self' = [self EXCEPT ![t] = g]
    /\ UNCHANGED <<clock, epochStart, sf, mutex, currentTimestamp, log, ctor, parts>>

\* mutant: NextID without the lock
CanLockAlways(g) == TRUE

\* line 68: sf.mutex.Lock() goes through once the mutex is free
CanLock(g) == mutex[g] = NoThread

\* lines 68-79: take the lock, read the clock, adjust tick and sequence
Acquire(t) ==
    /\ pc[t] = "Lock"
    /\ CanLock(self[t])
    /\ LET g == self[t]
           cur == elapsedTime(sf[g].StartTime)
       IN  /\ mutex' = [mutex EXCEPT ![g] = t]
           /\ currentTimestamp' = [currentTimestamp EXCEPT ![t] = cur]
           /\ sf' = [sf EXCEPT ![g] = Adjust(sf[g], cur)]
           /\ pc' = [pc EXCEPT ![t] = IF Rollover(sf[g], cur) THEN "Sleep" ELSE "Guard"]
    /\ UNCHANGED <<clock, epochStart, self, log, ctor, parts>>

\* lines 82-83: time.Sleep(standby) returns once at least standby has passed;
\* a sleep that ends beyond MaxClock ends exactly on time
Sleep(t) ==
    /\ pc[t] = "Sleep"
    /\ LET standby == Standby(sf[self[t]], currentTimestamp[t])
           least == IF standby > 0 THEN clock + standby ELSE clock
       IN  clock' \in least .. (IF least > MaxClock THEN least ELSE MaxClock)
    /\ pc' = [pc EXCEPT ![t] = "Guard"]
    /\ UNCHANGED <<epochStart, sf, mutex, self, currentTimestamp, log, ctor, parts>>

\* mutant: the Unlock of line 69 is missing
UnlockedNever(g) == mutex

\* line 69: defer sf.mutex.Unlock()
Unlocked(g) == [mutex EXCEPT ![g] = NoThread]

\* lines 87-101 and the deferred Unlock of line 69
Return(t) ==
    /\ pc[t] = "Guard"
    /\ LET g == self[t]
           r == Result(sf[g])
       IN  /\ log' = [log EXCEPT ![g] =
                        Append(@, [id |-> r.id, err |-> r.err,
                                   lastTimestamp |-> sf[g].lastTimestamp,
                                   Sequence |-> sf[g].Sequence])]
           /\ mutex' = Unlocked(g)
    /\ pc' = [pc EXCEPT ![t] = "idle"]
    /\ currentTimestamp' = [currentTimestamp EXCEPT ![t] = 0]
    /\ UNCHANGED <<clock, epochStart, sf, self, ctor, parts>>

\* the wall clock advances
ClockForward ==
    /\ clock' \in (clock + 1) .. MaxClock
    /\ UNCHANGED <<epochStart, sf, mutex, pc, self, currentTimestamp, log, ctor, parts>>

\* the wall clock is set back
ClockBackward ==
    /\ clock' \in 0 .. (clock - 1)
    /\ UNCHANGED <<epochStart, sf, mutex, pc, self, currentTimestamp, log, ctor, parts>>

\* t, mid, seq := DecomposeParts(id), for any 64-bit word
DecomposeCall(id) ==
    /\ parts' = [id |-> id, out |-> DecomposeParts(id)]
    /\ UNCHANGED <<clock, epochStart, sf, mutex, pc, self, currentTimestamp, log, ctor>>

Init ==
    /\ clock \in 0 .. MaxClock
    /\ epochStart = DefaultEpoch
    /\ sf = [g \in Gens |-> Nil]
    /\ mutex = [g \in Gens |-> NoThread]
    /\ pc = [t \in Threads |-> "idle"]
    /\ self = [t \in Threads |-> "sf"]
    /\ currentTimestamp = [t \in Threads |-> 0]
    /\ log = [g \in Gens |-> <<>>]
    /\ ctor = [g \in Gens |-> Nil]
    /\ parts = Nil

\* one generator, every construction input, concurrent callers
Next ==
    \/ \E s \in StartInputs, m \in MachineInputs : NewSnowflake("sf", s, m)
    \/ \E t \in Threads : CallsOn({"sf"}) < MaxCalls /\ Call(t, "sf")
    \/ \E t \in Threads : Acquire(t)
    \/ \E t \in Threads : Sleep(t)
    \/ \E t \in Threads : Return(t)
    \/ ClockForward
    \/ ClockBackward

Spec == Init /\ [][Next]_vars

\* two generators, one goroutine calling either
NextTwo ==
    \/ \E g \in Gens, s \in StartInputsTwo, m \in MachineInputsTwo : NewSnowflake(g, s, m)
    \/ \E g \in Gens : CallsOn(Gens) < MaxCallsTwo /\ Call(1, g)
    \/ Acquire(1)
    \/ Sleep(1)
    \/ Return(1)
    \/ ClockForward
    \/ ClockBackward

SpecTwo == Init /\ [][NextTwo]_vars

\* Spec with a wall clock that is never set back
NextMono ==
    \/ \E s \in StartInputs, m \in MachineInputs : NewSnowflake("sf", s, m)
    \/ \E t \in Threads : CallsOn({"sf"}) < MaxCalls /\ Call(t, "sf")
    \/ \E t \in Threads : Acquire(t)
    \/ \E t \in Threads : Sleep(t)
    \/ \E t \in Threads : Return(t)
    \/ ClockForward

SpecMono == Init /\ [][NextMono]_vars

\* the scheduling: a goroutine that can run does run, a timer that was set
\* fires, and sync.Mutex hands the lock to a goroutine that waits for it. The
\* callers make MaxCalls calls at most, so the mutex ends up free for good and
\* weak fairness of Acquire is all a fair lock has to give here.
Fairness ==
    \A t \in Threads :
        /\ WF_vars(Acquire(t))
        /\ WF_vars(Sleep(t))
        /\ WF_vars(Return(t))

\* the inputs of the specification with scheduling
StartInputsLive == {snowflakeTimeUnit + 1 - EpochSpan, 0}
MachineInputsLive == {1}

\* one generator and concurrent callers, as in Next
NextLive ==
    \/ \E s \in StartInputsLive, m \in MachineInputsLive : NewSnowflake("sf", s, m)
    \/ \E t \in Threads : CallsOn({"sf"}) < MaxCalls /\ Call(t, "sf")
    \/ \E t \in Threads : Acquire(t)
    \/ \E t \in Threads : Sleep(t)
    \/ \E t \in Threads : Return(t)
    \/ ClockForward
    \/ ClockBackward

SpecLive == Init /\ [][NextLive]_vars /\ Fairness

\* DecomposeParts on every word, next to a generator and a moving clock
NextDecompose ==
    \/ \E s \in StartInputs, m \in MachineInputs : NewSnowflake("sf", s, m)
    \/ \E id \in 0 .. (2 ^ TotalBits) - 1 : DecomposeCall(id)
    \/ ClockForward
    \/ ClockBackward

SpecDecompose == Init /\ [][NextDecompose]_vars

\* ------------------------------------------------------------ histories
Constructed == {g \in Gens : sf[g] # Nil}
Errored(e) == e.err = "maximum timestamp has been reached"
\* the positions of log[g] that hold an identifier
Issued(g) == {i \in 1 .. Len(log[g]) : log[g][i].err = "nil"}
Ids(g) == {log[g][i].id : i \in Issued(g)}
TimestampOf(id) == DecomposeParts(id)[1]
NodeOf(id) == DecomposeParts(id)[2]
SequenceOf(id) == DecomposeParts(id)[3]
\* the goroutine inside the critical section of g, if any
Holder(g) == {t \in Threads : pc[t] \in {"Sleep", "Guard"} /\ self[t] = g}

\* C1: any two NextID calls on one generator that return without error
\* return distinct identifiers, whatever the interleaving of the callers and
\* the behaviour of the clock.
C1_Unique ==
    \A g \in Gens : \A i, j \in Issued(g) : i # j => log[g][i].id # log[g][j].id

\* two identifiers are out, one goroutine is inside NextID and another is
\* blocked on the mutex
C1_Witness ==
    /\ Cardinality(Issued("sf")) >= 2
    /\ \E t, u \in Threads : pc[t] = "Guard" /\ pc[u] = "Lock" /\ self[t] = self[u]

\* C2: the identifiers one generator returns are strictly increasing in
\* the order of lock acquisition.
C2_Increasing ==
    \A g \in Gens : \A i, j \in Issued(g) : i < j => log[g][i].id < log[g][j].id

\* identifiers minted across a tick change and after the clock was set back
\* below the last tick
C2_Witness ==
    /\ \E i, j \in Issued("sf") :
          /\ i < j
          /\ TimestampOf(log["sf"][i].id) < TimestampOf(log["sf"][j].id)
          /\ SequenceOf(log["sf"][i].id) > SequenceOf(log["sf"][j].id)
    /\ sf["sf"].lastTimestamp > elapsedTime(sf["sf"].StartTime)
    /\ Cardinality(Issued("sf")) >= 4

\* C3: NextID returns the exhaustion error, with identifier 0, exactly
\* when lastTimestamp after the adjustment is >= 2^EpochBits, and otherwise an
\* identifier whose timestamp field is lastTimestamp, below 2^EpochBits; the
\* first call on a generator whose epoch lies fewer than 2^EpochBits ticks in
\* the past (as elapsedTime counts them) succeeds, and with 2^EpochBits or
\* more ticks it fails.
C3_EpochExhausted ==
    /\ \A g \in Gens : \A i \in 1 .. Len(log[g]) :
          LET e == log[g][i]
          IN  /\ e.err \in {"nil", "maximum timestamp has been reached"}
              /\ Errored(e) <=> e.lastTimestamp >= 2 ^ EpochBits
              /\ Errored(e) => e.id = 0
              /\ ~Errored(e) =>
                    /\ TimestampOf(e.id) = e.lastTimestamp
                    /\ e.lastTimestamp \in 0 .. (2 ^ EpochBits) - 1
    /\ \A t \in Threads :
          (pc[t] = "Guard" /\ Len(log[self[t]]) = 0) =>
              (currentTimestamp[t] < 2 ^ EpochBits <=> Result(sf[self[t]]).err = "nil")

\* the last in-range tick was minted and the next call failed
C3_Witness ==
    \E i \in 1 .. Len(log["sf"]) - 1 :
        /\ ~Errored(log["sf"][i])
        /\ log["sf"][i].lastTimestamp = (2 ^ EpochBits) - 1
        /\ Errored(log["sf"][i + 1])

\* C4: DecomposeParts of a returned identifier gives back the
\* generator's lastTimestamp and Sequence of that call and its MachineID, the
\* sequence within 0 .. 2^SequenceBits - 1; the packed fields do not overlap.
C4_RoundTrip ==
    \A g \in Constructed : \A i \in Issued(g) :
        LET e == log[g][i]
        IN  /\ DecomposeParts(e.id) = <<e.lastTimestamp, sf[g].MachineID, e.Sequence>>
            /\ e.Sequence \in 0 .. (2 ^ SequenceBits) - 1
            /\ e.id = e.lastTimestamp * 2 ^ (MachineIDBits + SequenceBits)
                        + sf[g].MachineID * 2 ^ SequenceBits + e.Sequence

\* an identifier with all three fields at their maximum
C4_Witness ==
    \E i \in Issued("sf") :
        DecomposeParts(log["sf"][i].id) =
            <<(2 ^ EpochBits) - 1, (2 ^ MachineIDBits) - 1, (2 ^ SequenceBits) - 1>>

\* C5: at most 2^SequenceBits returned identifiers carry one tick, and
\* once the identifier with the last sequence number of a tick is out, every
\* later identifier carries a greater tick.
C5_SequenceBudget ==
    \A g \in Gens :
        /\ \A k \in 0 .. (2 ^ EpochBits) - 1 :
              Cardinality({i \in Issued(g) : TimestampOf(log[g][i].id) = k})
                  <= 2 ^ SequenceBits
        /\ \A i, j \in Issued(g) :
              (i < j /\ SequenceOf(log[g][i].id) = (2 ^ SequenceBits) - 1) =>
                  TimestampOf(log[g][j].id) > TimestampOf(log[g][i].id)

\* a tick was used up (2^SequenceBits identifiers) and the call after it
\* returned the next tick
C5_Witness ==
    \E k \in 0 .. (2 ^ EpochBits) - 2 :
        /\ Cardinality({i \in Issued("sf") : TimestampOf(log["sf"][i].id) = k})
              = 2 ^ SequenceBits
        /\ \E j \in Issued("sf") :
              /\ j > 2 ^ SequenceBits
              /\ TimestampOf(log["sf"][j].id) = k + 1
              /\ TimestampOf(log["sf"][j - 1].id) = k

\* C6: NewSnowflake with an epoch later than the clock returns no
\* generator and changes nothing: the variable stays nil, and epochStart, the
\* existing generators, their locks and their results are as before.
C6_FutureEpochRejected ==
    [][\A g \in Gens :
          (ctor'[g] # ctor[g] /\ ctor'[g].starttime > clock) =>
              /\ sf'[g] = Nil
              /\ sf' = sf
              /\ epochStart' = epochStart
              /\ mutex' = mutex
              /\ log' = log]_vars

\* a construction with a future epoch has failed next to a generator that
\* was built with the zero epoch and has minted
C6_Witness ==
    /\ ctor["sf2"] # Nil
    /\ sf["sf2"] = Nil
    /\ sf["sf"] # Nil
    /\ IsZero(ctor["sf"].starttime)
    /\ Issued("sf") # {}

\* C7: a generator constructed with the zero epoch gets the built-in
\* default epoch, whatever constructions came before it.
C7_DefaultEpochFixed ==
    \A g \in Constructed :
        IsZero(ctor[g].starttime) => sf[g].StartTime = timeToSnowflakeUnit(DefaultEpoch)

\* C8: the generator's MachineID is the low MachineIDBits bits of the
\* integer given to NewSnowflake, negative and out-of-range integers included;
\* MachineID and StartTime stay as constructed through every NextID, and the
\* node field of every returned identifier is that MachineID, the timestamp and
\* sequence fields being those of the call.
C8_NodeMasked ==
    \A g \in Constructed :
        LET node == ctor[g].machineID % (2 ^ MachineIDBits)
            start == IF ctor[g].starttime = ZeroTime THEN DefaultEpoch
                     ELSE ctor[g].starttime
        IN  /\ sf[g].MachineID = node
            /\ node \in 0 .. (2 ^ MachineIDBits) - 1
            /\ sf[g].StartTime = GoDiv(start, snowflakeTimeUnit)
            /\ \A i \in Issued(g) :
                  /\ NodeOf(log[g][i].id) = node
                  /\ TimestampOf(log[g][i].id) = log[g][i].lastTimestamp
                  /\ SequenceOf(log[g][i].id) = log[g][i].Sequence

\* a generator built with a negative machine identifier has minted in two
\* ticks
C8_Witness ==
    /\ sf["sf"] # Nil
    /\ ctor["sf"].machineID < 0
    /\ \E i, j \in Issued("sf") :
          log["sf"][i].lastTimestamp # log["sf"][j].lastTimestamp

\* C9: two generators constructed with different node identifiers in
\* 0 .. 2^MachineIDBits - 1 never return the same identifier.
C9_NodesDisjoint ==
    \A g, h \in Constructed :
        (/\ g # h
         /\ ctor[g].machineID \in 0 .. (2 ^ MachineIDBits) - 1
         /\ ctor[h].machineID \in 0 .. (2 ^ MachineIDBits) - 1
         /\ ctor[g].machineID # ctor[h].machineID)
            => Ids(g) \cap Ids(h) = {}

\* two generators with different node identifiers have minted with the same
\* tick and the same sequence number
C9_Witness ==
    /\ Constructed = Gens
    /\ ctor["sf"].machineID \in 0 .. (2 ^ MachineIDBits) - 1
    /\ ctor["sf2"].machineID \in 0 .. (2 ^ MachineIDBits) - 1
    /\ ctor["sf"].machineID # ctor["sf2"].machineID
    /\ \E i \in Issued("sf"), j \in Issued("sf2") :
          /\ TimestampOf(log["sf"][i].id) = TimestampOf(log["sf2"][j].id)
          /\ SequenceOf(log["sf"][i].id) = SequenceOf(log["sf2"][j].id)
          /\ SequenceOf(log["sf"][i].id) > 0

\* C10: once a NextID call on a generator has returned the exhaustion
\* error, every later call on it returns the error too.
C10_ExhaustedForever ==
    \A g \in Gens : \A i, j \in 1 .. Len(log[g]) :
        (i < j /\ Errored(log[g][i])) => Errored(log[g][j])

\* the error came back twice, and the clock now reads a tick the timestamp
\* field could hold
C10_Witness ==
    /\ sf["sf"] # Nil
    /\ Len(log["sf"]) >= 2
    /\ Errored(log["sf"][Len(log["sf"]) - 1])
    /\ Errored(log["sf"][Len(log["sf"])])
    /\ elapsedTime(sf["sf"].StartTime) < 2 ^ EpochBits
    /\ \A t \in Threads : pc[t] = "idle"

\* C11: DecomposeParts is total and stateless: for every word id it
\* returns timestamp = id div 2^(MachineIDBits+SequenceBits), node =
\* (id div 2^SequenceBits) mod 2^MachineIDBits and sequence = id mod
\* 2^SequenceBits, which add up to id again, and the call leaves the generator,
\* its lock, the package epoch and the clock as they were.
C11_DecomposeTotal ==
    /\ [](parts # Nil =>
            /\ parts.id \in 0 .. (2 ^ TotalBits) - 1
            /\ parts.out[1] = parts.id \div 2 ^ (MachineIDBits + SequenceBits)
            /\ parts.out[2] = (parts.id \div 2 ^ SequenceBits) % 2 ^ MachineIDBits
            /\ parts.out[3] = parts.id % 2 ^ SequenceBits
            /\ parts.out[1] * 2 ^ (MachineIDBits + SequenceBits)
                 + parts.out[2] * 2 ^ SequenceBits + parts.out[3] = parts.id)
    /\ [][parts' # parts =>
            UNCHANGED <<clock, epochStart, sf, mutex, pc, self, currentTimestamp, log>>]_vars

\* the word of all ones was decomposed while a generator exists
C11_Witness ==
    /\ parts # Nil
    /\ parts.id = (2 ^ TotalBits) - 1
    /\ parts.out = <<(2 ^ EpochBits) - 1, (2 ^ MachineIDBits) - 1, (2 ^ SequenceBits) - 1>>
    /\ sf["sf"] # Nil

\* C12: at most one NextID call per generator is inside the critical
\* section, lastTimestamp and Sequence change only in a step of the call that
\* holds the mutex, and the mutex is released on every exit of NextID, so it
\* is free whenever no call is in progress on the generator.
C12_MutualExclusion ==
    /\ [](\A g \in Gens :
            /\ Cardinality(Holder(g)) <= 1
            /\ \A t \in Threads : mutex[g] = t <=> t \in Holder(g)
            /\ (\A t \in Threads : pc[t] = "idle" \/ self[t] # g) => mutex[g] = NoThread)
    /\ [][\A g \in Gens :
            (sf[g] # Nil /\ sf'[g] # sf[g]) =>
                /\ mutex'[g] \in Threads
                /\ Holder(g)' = {mutex'[g]}
                /\ Holder(g) = {}
                /\ mutex[g] = NoThread]_vars

\* one call holds the mutex, another is blocked on it, and calls have left
\* NextID before both with an identifier and with the error
C12_Witness ==
    /\ \E t, u \in Threads :
          /\ pc[t] = "Guard" /\ pc[u] = "Lock"
          /\ self[t] = "sf" /\ self[u] = "sf"
          /\ mutex["sf"] = t
    /\ Issued("sf") # {}
    /\ \E i \in 1 .. Len(log["sf"]) : Errored(log["sf"][i])

\* C13: under a fair lock every NextID call returns, with an
\* identifier or an error: no caller waits for the mutex forever and the
\* rollover sleep ends.
C13_CallsReturn ==
    \A t \in Threads : (pc[t] # "idle") ~> (pc[t] = "idle")

\* one call sleeps on a rollover with the mutex held while another waits for
\* the mutex
C13_Witness ==
    \E t, u \in Threads :
        /\ pc[t] = "Sleep" /\ pc[u] = "Lock"
        /\ self[t] = "sf" /\ self[u] = "sf"
        /\ mutex["sf"] = t
        /\ Standby(sf["sf"], currentTimestamp[t]) > 0

\* C14: whenever NextID sleeps on a sequence rollover, lastTimestamp
\* after the increment is at most one tick ahead of the tick read at the start
\* of the call, and the standby computed on line 82 is at most one time unit.
C14_SleepWithinUnit ==
    \A t \in Threads :
        pc[t] = "Sleep" =>
            /\ sf[self[t]].lastTimestamp - currentTimestamp[t] <= 1
            /\ Standby(sf[self[t]], currentTimestamp[t]) <= snowflakeTimeUnit

\* C15: provided the wall clock never moves backwards, the timestamp
\* field of every identifier NextID has returned is at most the number of
\* ticks elapsed since the generator's epoch: no timestamp is from the future.
C15_NotFromFuture ==
    \A g \in Constructed : \A i \in Issued(g) :
        TimestampOf(log[g][i].id) <= elapsedTime(sf[g].StartTime)

\* C16: the sequence guard of line 87 never fires: Sequence stays within
\* 0 .. 2^SequenceBits - 1 in every reachable state, no call is about to
\* abort and none has aborted.
C16_GuardUnreachable ==
    /\ \A g \in Constructed :
          /\ sf[g].Sequence \in 0 .. (2 ^ SequenceBits) - 1
          /\ Result(sf[g]).err # "panic"
    /\ \A g \in Gens : \A i \in 1 .. Len(log[g]) : log[g][i].err # "panic"

\* a call stands at the guard right after the sequence wrapped from its
\* maximum to 0
C16_Witness ==
    \E t \in Threads :
        /\ pc[t] = "Guard"
        /\ self[t] = "sf"
        /\ sf["sf"].Sequence = 0
        /\ Len(log["sf"]) > 0
        /\ log["sf"][Len(log["sf"])].Sequence = (2 ^ SequenceBits) - 1
        /\ log["sf"][Len(log["sf"])].lastTimestamp + 1 = sf["sf"].lastTimestamp
        /\ currentTimestamp[t] < sf["sf"].lastTimestamp

\* C17: the sequence field of every returned identifier is the number
\* of identifiers the generator returned before with the same timestamp
\* field, so the first identifier of every tick, the very first identifier
\* included, has sequence 0.
C17_SequenceCounts ==
    \A g \in Gens : \A i \in Issued(g) :
        SequenceOf(log[g][i].id) =
            Cardinality({j \in Issued(g) :
                            /\ j < i
                            /\ TimestampOf(log[g][j].id) = TimestampOf(log[g][i].id)})

\* C18: lastTimestamp is never negative and never decreases, and a
\* call that reads a tick not ahead of lastTimestamp keeps lastTimestamp and
\* increments Sequence modulo 2^SequenceBits, going to the next tick when the
\* sequence wraps, instead of adopting the smaller tick.
C18_TickMonotone ==
    /\ [](\A g \in Constructed : sf[g].lastTimestamp >= 0)
    /\ [][\A g \in Gens : sf[g] # Nil =>
            /\ sf'[g].lastTimestamp >= sf[g].lastTimestamp
            /\ \A t \in Threads :
                  (pc[t] = "Lock" /\ pc'[t] # "Lock" /\ self[t] = g
                      /\ currentTimestamp'[t] <= sf[g].lastTimestamp) =>
                      /\ sf'[g].Sequence = (sf[g].Sequence + 1) % (2 ^ SequenceBits)
                      /\ sf'[g].lastTimestamp =
                            sf[g].lastTimestamp + (IF sf'[g].Sequence = 0 THEN 1 ELSE 0)]_vars

\* a call read a tick behind lastTimestamp, after the clock was set back, and
\* went on with the next sequence number of the old tick
C18_Witness ==
    \E t \in Threads :
        /\ pc[t] = "Guard"
        /\ self[t] = "sf"
        /\ currentTimestamp[t] >= 0
        /\ currentTimestamp[t] < sf["sf"].lastTimestamp
        /\ sf["sf"].Sequence > 0
        /\ Issued("sf") # {}

====
